---- MODULE Spec2Model ----
(***************************************************************************)
(* Shared-memory monitor of src/core/ddsc/src/shm_monitor.c.               *)
(*                                                                         *)
(* Application threads call the control operations of the monitor          *)
(* (wake_and_invoke, wake_and_disable, wake_and_enable, attach_reader,     *)
(* detach_reader, destroy), one C statement per step.  The iceoryx         *)
(* listener thread waits for notifications (the wakeup user trigger, a     *)
(* subscriber's HAS_DATA event) and runs shm_wakeup_trigger_callback or    *)
(* shm_subscriber_callback / receive_data_wakeup_handler, again one        *)
(* statement per step.                                                     *)
(*                                                                         *)
(* shm_monitor_init does not write storage->call, storage->arg or          *)
(* m_number_of_attached_readers; they start at NULL / 0 here, as in a      *)
(* zero-filled monitor object.  The count is modelled as an integer.       *)
(*                                                                         *)
(* The iceoryx side (listener dispatch, user trigger, chunk queues,         *)
(* listener capacity) is modelled at its interface: notifications are      *)
(* flags that coalesce, the listener resets a flag before it calls the     *)
(* callback, and iox_listener_deinit joins the listener thread.            *)
(***************************************************************************)
EXTENDS Integers, Sequences, FiniteSets, TLC

\* ------------------------------------------------------------- bounds
MaxOps == 3              \* control operations started in one behaviour
MaxChunks == 3           \* chunks the transport publishes in one behaviour
ListenerCapacity == 2    \* subscriber events the listener accepts

\* ---------------------------------------------------------- universes
Threads == {"T1", "T2"}          \* application threads
LThreads == {"L1", "L2"}         \* threads of the event listener
Readers == {"r1", "r2", "r3"}
NoReader == "none"
Reqs == {1, 2}                   \* request i passes function f_i and argument a_i
NULL == 0
Kinds == {"ok", "nopwr", "notk"} \* chunk: writer resolves and token found /
                                 \* writer unresolved / token lookup fails
NoChunk == <<0, "none">>         \* chunk == NULL

SHM_MONITOR_RUNNING == "RUNNING"
SHM_MONITOR_NOT_RUNNING == "NOT_RUNNING"
DDS_RETCODE_OK == "OK"
DDS_RETCODE_OUT_OF_RESOURCES == "OUT_OF_RESOURCES"

VARIABLES
  \* shm_monitor_t
  m_state, m_number_of_attached_readers, m_lock, call, arg,
  \* iceoryx: listener, user trigger, subscribers' chunk queues, global shm mutex
  listener, trig, registered, hasData, queue, nchunks, shm_mutex,
  \* listener threads: position, reader of the callback, locals
  lpc, lrd, lcall, chunk, d, tk, awake,
  \* reader history caches: the chunks stored, in order
  rhc,
  \* application threads: position, arguments, return value, count read by ++/--
  tpc, treq, trdr, tret, ttmp, indestroy, nops,
  \* history of the calls made on the listener thread by the wakeup callback
  invoked,
  \* history variables of the claims (never read by the program)
  trigBy, lcause, pendingClean, clean, dropped, invAtDrop, ncalls,
  lastop, snapA, rep, nAttachCalls, nAttachOK, nDetach, illDetach, everEnabled,
  rpK, rpTaken, rpStored, rpArrived, made,
  \* per invocation of the handler: chunks taken and not let go, samples made,
  \* tokens obtained, samples and tokens unreferenced; NOT_RUNNING set meanwhile
  held, rpMade, rpTkGot, rpUnrefD, rpUnrefTk, rpDisabled,
  \* two wake_and_invoke calls in a row with the listener thread waiting
  lww,
  \* whether the callers call nothing once destroy has been entered
  serialDestroy

monVars == <<m_state, m_number_of_attached_readers, m_lock, call, arg>>
ioxVars == <<listener, trig, registered, hasData, queue, nchunks, shm_mutex>>
lVars == <<lpc, lrd, lcall, chunk, d, tk, awake>>
tVars == <<tpc, treq, trdr, tret, ttmp, indestroy, nops>>
wkHist == <<trigBy, lcause, pendingClean, clean, dropped, invAtDrop,
            ncalls>>
opHist == <<lastop, snapA, rep, nAttachCalls, nAttachOK, nDetach, illDetach, everEnabled>>
rpHist == <<rpK, rpTaken, rpStored, rpArrived, made>>
relHist == <<held, rpMade, rpTkGot, rpUnrefD, rpUnrefTk>>
xHist == <<relHist, rpDisabled, lww, serialDestroy>>
vars == <<monVars, ioxVars, lVars, rhc, tVars, invoked, wkHist, opHist, rpHist,
          xHist>>

NoRep == [active |-> FALSE, op |-> "none", st |-> "none", call |-> NULL,
          arg |-> NULL, inv |-> 0]
NoSnap == <<0, {}, "none", FALSE>>
NoLww == [st |-> "none", f |-> NULL, base |-> 0]

\* Number of calls the wakeup callback has made so far.
RECURSIVE SumOver(_, _)
SumOver(f, S) ==
  IF S = {} THEN 0
  ELSE LET x == CHOOSE y \in S : TRUE IN f[x] + SumOver(f, S \ {x})

TotalInvoked == SumOver(invoked, DOMAIN invoked)

\* shm_monitor_init: lock, listener and wakeup trigger constructed, the trigger
\* attached with shm_wakeup_trigger_callback, m_state = RUNNING.
InitMonitor ==
  /\ m_state = SHM_MONITOR_RUNNING
  /\ m_number_of_attached_readers = 0
  /\ m_lock = "init"
  /\ call = NULL
  /\ arg = NULL
  /\ listener = "active"
  /\ trig = FALSE
  /\ registered = {}
  /\ hasData = {}
  /\ queue = [r \in Readers |-> <<>>]
  /\ nchunks = 0
  /\ shm_mutex = "free"
  /\ lpc = [l \in LThreads |-> "wait"]
  /\ lrd = [l \in LThreads |-> NoReader]
  /\ lcall = [l \in LThreads |-> NULL]
  /\ chunk = [l \in LThreads |-> NoChunk]
  /\ d = [l \in LThreads |-> NoChunk]
  /\ tk = [l \in LThreads |-> FALSE]
  /\ awake = [l \in LThreads |-> FALSE]
  /\ rhc = [r \in Readers |-> <<>>]
  /\ tpc = [t \in Threads |-> "idle"]
  /\ treq = [t \in Threads |-> NULL]
  /\ trdr = [t \in Threads |-> NoReader]
  /\ tret = [t \in Threads |-> "none"]
  /\ ttmp = [t \in Threads |-> 0]
  /\ indestroy = [t \in Threads |-> FALSE]
  /\ nops = 0
  /\ invoked = [p \in (Reqs \X (Reqs \cup {NULL})) |-> 0]
  /\ trigBy = {}
  /\ lcause = [l \in LThreads |-> {}]
  /\ pendingClean = {}
  /\ clean = {}
  /\ dropped = {}
  /\ invAtDrop = [i \in Reqs |-> 0]
  /\ ncalls = [i \in Reqs |-> 0]
  /\ lastop = [t \in Threads |-> "none"]
  /\ snapA = [t \in Threads |-> NoSnap]
  /\ rep = [t \in Threads |-> NoRep]
  /\ nAttachCalls = 0
  /\ nAttachOK = 0
  /\ nDetach = 0
  /\ illDetach = FALSE
  /\ everEnabled = FALSE
  /\ rpK = [l \in LThreads |-> 0]
  /\ rpTaken = [l \in LThreads |-> <<>>]
  /\ rpStored = [l \in LThreads |-> <<>>]
  /\ rpArrived = [l \in LThreads |-> FALSE]
  /\ made = {}
  /\ held = [l \in LThreads |-> {}]
  /\ rpMade = [l \in LThreads |-> <<>>]
  /\ rpTkGot = [l \in LThreads |-> <<>>]
  /\ rpUnrefD = [l \in LThreads |-> <<>>]
  /\ rpUnrefTk = [l \in LThreads |-> <<>>]
  /\ rpDisabled = [l \in LThreads |-> FALSE]
  /\ lww = NoLww

\* The callers keep to the contract of shm_monitor_destroy: no control
\* operation is called once destroy has been entered.
Init == InitMonitor /\ serialDestroy = TRUE

\* The callers call control operations on other threads while destroy runs.
InitConcurrentDestroy == InitMonitor /\ serialDestroy = FALSE

\* ------------------------------------------------------------ helpers
\* No callback is running and no wakeup notification is pending.
Quiescent == ~trig /\ \A l \in LThreads : lpc[l] = "wait"

\* The monitor may still be used: shm_monitor_destroy has not been entered or,
\* with callers that call while destroy runs, has not returned.
Usable ==
  \A t \in Threads : IF serialDestroy THEN ~indestroy[t] ELSE tpc[t] # "done"

\* Positions of a listener thread inside receive_data_wakeup_handler.
InPipeline(l) ==
  lpc[l] \in {"rp_lock", "rp_take", "rp_unlock_success", "rp_unlock_nochunk",
              "rp_lookup", "rp_serdata", "rp_tk", "rp_store", "rp_release",
              "rp_asleep"}

\* iox_user_trigger_trigger(monitor->m_wakeup_trigger): the notification of the
\* wakeup trigger becomes pending; firings before the listener wakes coalesce.
iox_user_trigger_trigger == trig' = TRUE

\* Bookkeeping at the call of operation op by thread t.
BeginOp(t, op, snap) ==
  /\ tpc[t] = "idle"
  /\ Usable
  /\ nops < MaxOps
  /\ nops' = nops + 1
  /\ snapA' = [snapA EXCEPT ![t] = snap]
  /\ rep' = [rep EXCEPT ![t] =
               IF op \in {"enable", "disable"} /\ lastop[t] = op /\ Quiescent
               THEN [active |-> TRUE, op |-> op, st |-> m_state, call |-> call,
                     arg |-> arg, inv |-> TotalInvoked]
               ELSE NoRep]

\* Bookkeeping at the return of operation op by thread t with value rc.
Return(t, op, rc) ==
  /\ tpc' = [tpc EXCEPT ![t] = "idle"]
  /\ tret' = [tret EXCEPT ![t] = rc]
  /\ lastop' = [lastop EXCEPT ![t] = op]

\* --------------------------------------------- shm_monitor_wake_and_invoke
\* Mutant of line 57: a function that is still stored is not overwritten.
StoredCall_keepfirst(old, new) == IF old # NULL THEN old ELSE new

\* line 57: the assignment overwrites the single slot, whatever it holds
StoredCall(old, new) == new

\* line 57: storage->call = function
wake_and_invoke_call(t, i) ==
  /\ BeginOp(t, "invoke", NoSnap)
  /\ call' = StoredCall(call, i)
  /\ lww' = IF lww.st = "first" /\ lww.f # i
            THEN [st |-> "w2", f |-> i,
                  base |-> TotalInvoked - invoked[<<i, i>>]]
            ELSE IF \A l \in LThreads : lpc[l] = "wait"
                 THEN [st |-> "w1", f |-> i, base |-> 0]
                 ELSE NoLww
  /\ treq' = [treq EXCEPT ![t] = i]
  /\ tpc' = [tpc EXCEPT ![t] = "wi_arg"]
  /\ pendingClean' = IF m_state = SHM_MONITOR_RUNNING
                     THEN pendingClean \cup {i} ELSE pendingClean \ {i}
  /\ clean' = clean \ {i}
  /\ dropped' = dropped \ {i}
  /\ ncalls' = [ncalls EXCEPT ![i] = @ + 1]
  /\ UNCHANGED <<relHist, rpDisabled, serialDestroy, m_state, m_number_of_attached_readers, m_lock, arg, ioxVars,
                 lVars, rhc, trdr, tret, ttmp, indestroy, invoked, trigBy,
                 lcause, invAtDrop, lastop, nAttachCalls, nAttachOK, nDetach,
                 illDetach, everEnabled, rpHist>>

\* line 58: storage->arg = arg
wake_and_invoke_arg(t) ==
  /\ tpc[t] = "wi_arg"
  /\ arg' = treq[t]
  /\ tpc' = [tpc EXCEPT ![t] = "wi_trig"]
  /\ UNCHANGED <<xHist, m_state, m_number_of_attached_readers, m_lock, call, ioxVars,
                 lVars, rhc, treq, trdr, tret, ttmp, indestroy, nops, invoked,
                 wkHist, opHist, rpHist>>

\* lines 59-60: iox_user_trigger_trigger; return DDS_RETCODE_OK
wake_and_invoke_trigger(t) ==
  /\ tpc[t] = "wi_trig"
  /\ iox_user_trigger_trigger
  /\ trigBy' = trigBy \cup {treq[t]}
  /\ treq' = [treq EXCEPT ![t] = NULL]
  /\ Return(t, "invoke", DDS_RETCODE_OK)
  /\ lww' = IF lww.st = "w1" THEN [lww EXCEPT !.st = "first"]
            ELSE IF lww.st = "w2" THEN [lww EXCEPT !.st = "both"]
            ELSE lww
  /\ UNCHANGED <<relHist, rpDisabled, serialDestroy, monVars, listener, registered, hasData, queue, nchunks,
                 shm_mutex, lVars, rhc, trdr, ttmp, indestroy, nops, invoked,
                 lcause, pendingClean, clean, dropped, invAtDrop,
                 snapA, rep, nAttachCalls, nAttachOK, nDetach, illDetach,
                 everEnabled, rpHist, ncalls>>

\* -------------------------------------------- shm_monitor_wake_and_disable
\* line 64: monitor->m_state = SHM_MONITOR_NOT_RUNNING
SetNotRunning(t) ==
  /\ m_state' = SHM_MONITOR_NOT_RUNNING
  /\ tpc' = [tpc EXCEPT ![t] = "wd_trig"]
  /\ pendingClean' = {}
  /\ rpDisabled' = [l \in LThreads |-> rpDisabled[l] \/ InPipeline(l)]

wake_and_disable_state(t) ==
  /\ BeginOp(t, "disable", NoSnap)
  /\ SetNotRunning(t)
  /\ UNCHANGED <<relHist, lww, serialDestroy, m_number_of_attached_readers, m_lock, call, arg, ioxVars,
                 lVars, rhc, treq, trdr, tret, ttmp, indestroy, invoked,
                 trigBy, lcause, clean, dropped, invAtDrop, lastop,
                 nAttachCalls, nAttachOK, nDetach, illDetach, everEnabled, rpHist,
                 ncalls>>

\* lines 65-66: iox_user_trigger_trigger; return DDS_RETCODE_OK (to the caller,
\* which is shm_monitor_destroy line 47 when called from line 46)
wake_and_disable_trigger(t) ==
  /\ tpc[t] = "wd_trig"
  /\ iox_user_trigger_trigger
  /\ IF indestroy[t]
     THEN /\ tpc' = [tpc EXCEPT ![t] = "ds_spin"]
          /\ UNCHANGED <<tret, lastop>>
     ELSE Return(t, "disable", DDS_RETCODE_OK)
  /\ UNCHANGED <<xHist, monVars, listener, registered, hasData, queue, nchunks,
                 shm_mutex, lVars, rhc, treq, trdr, ttmp, indestroy, nops,
                 invoked, wkHist, snapA, rep, nAttachCalls, nAttachOK, nDetach,
                 illDetach, everEnabled, rpHist>>

\* --------------------------------------------- shm_monitor_wake_and_enable
\* line 70: monitor->m_state = SHM_MONITOR_RUNNING
wake_and_enable_state(t) ==
  /\ BeginOp(t, "enable", NoSnap)
  /\ m_state' = SHM_MONITOR_RUNNING
  /\ tpc' = [tpc EXCEPT ![t] = "we_trig"]
  /\ everEnabled' = TRUE
  /\ UNCHANGED <<xHist, m_number_of_attached_readers, m_lock, call, arg, ioxVars,
                 lVars, rhc, treq, trdr, tret, ttmp, indestroy, invoked,
                 wkHist, lastop, nAttachCalls, nAttachOK, nDetach, illDetach,
                 rpHist>>

\* lines 71-72: iox_user_trigger_trigger; return DDS_RETCODE_OK
wake_and_enable_trigger(t) ==
  /\ tpc[t] = "we_trig"
  /\ iox_user_trigger_trigger
  /\ Return(t, "enable", DDS_RETCODE_OK)
  /\ UNCHANGED <<xHist, monVars, listener, registered, hasData, queue, nchunks,
                 shm_mutex, lVars, rhc, treq, trdr, ttmp, indestroy, nops,
                 invoked, wkHist, snapA, rep, nAttachCalls, nAttachOK, nDetach,
                 illDetach, everEnabled, rpHist>>

\* ------------------------------------------------------ shm_monitor_destroy
\* line 46: shm_monitor_wake_and_disable(monitor), entered at its line 64
destroy_disable(t) ==
  /\ BeginOp(t, "destroy", NoSnap)
  /\ indestroy' = [indestroy EXCEPT ![t] = TRUE]
  /\ SetNotRunning(t)
  /\ UNCHANGED <<relHist, lww, serialDestroy, m_number_of_attached_readers, m_lock, call, arg, ioxVars,
                 lVars, rhc, treq, trdr, tret, ttmp, invoked, trigBy, lcause,
                 clean, dropped, invAtDrop, lastop, nAttachCalls,
                 nAttachOK, nDetach, illDetach, everEnabled, rpHist, ncalls>>

\* line 47: while (monitor->m_state == SHM_MONITOR_RUNNING);
destroy_spin(t) ==
  /\ tpc[t] = "ds_spin"
  /\ tpc' = [tpc EXCEPT ![t] =
               IF m_state = SHM_MONITOR_RUNNING THEN "ds_spin" ELSE "ds_deinit"]
  /\ UNCHANGED <<xHist, monVars, ioxVars, lVars, rhc, treq, trdr, tret, ttmp,
                 indestroy, nops, invoked, wkHist, opHist, rpHist>>

\* line 51: iox_listener_deinit(monitor->m_listener).  The listener's
\* destructor joins its thread: the call returns once no callback is running,
\* and no callback is dispatched afterwards.
destroy_deinit(t) ==
  /\ tpc[t] = "ds_deinit"
  /\ \A l \in LThreads : lpc[l] = "wait"
  /\ listener' = "deinit"
  /\ tpc' = [tpc EXCEPT ![t] = "ds_lock"]
  /\ UNCHANGED <<xHist, monVars, trig, registered, hasData, queue, nchunks, shm_mutex,
                 lVars, rhc, treq, trdr, tret, ttmp, indestroy, nops, invoked,
                 wkHist, opHist, rpHist>>

\* line 52: ddsrt_mutex_destroy(&monitor->m_lock)
destroy_lock(t) ==
  /\ tpc[t] = "ds_lock"
  /\ m_lock' = "destroyed"
  /\ tpc' = [tpc EXCEPT ![t] = "done"]
  /\ lastop' = [lastop EXCEPT ![t] = "destroy"]
  /\ UNCHANGED <<xHist, m_state, m_number_of_attached_readers, call, arg, ioxVars,
                 lVars, rhc, treq, trdr, tret, ttmp, indestroy, nops, invoked,
                 wkHist, snapA, rep, nAttachCalls, nAttachOK, nDetach,
                 illDetach, everEnabled, rpHist>>


\* ------------------------------------------------ shm_monitor_attach_reader
\* iox_listener_attach_subscriber_event succeeds when the listener has a free
\* slot and the subscriber's event is not attached yet.
ListenerAccepts(r) ==
  /\ Cardinality(registered) < ListenerCapacity
  /\ r \notin registered

\* Mutant of line 79: the `return` is missing.
AttachRefusedNext_fallthrough == "at_read"

\* Where attach_reader goes after a refused registration (lines 77-80): it
\* returns DDS_RETCODE_OUT_OF_RESOURCES without touching the count.
AttachRefusedNext == "idle"

\* lines 77-80: register the HAS_DATA event with shm_subscriber_callback
attach_reader_register(t, r) ==
  /\ BeginOp(t, "attach", <<m_number_of_attached_readers, registered, m_state,
                           ListenerAccepts(r)>>)
  /\ nAttachCalls' = nAttachCalls + 1
  /\ IF ListenerAccepts(r)
     THEN /\ registered' = registered \cup {r}
          /\ tpc' = [tpc EXCEPT ![t] = "at_read"]
          /\ trdr' = [trdr EXCEPT ![t] = r]
          /\ UNCHANGED <<tret, lastop>>
     ELSE /\ tpc' = [tpc EXCEPT ![t] = AttachRefusedNext]
          /\ IF AttachRefusedNext = "idle"
             THEN /\ tret' = [tret EXCEPT ![t] = DDS_RETCODE_OUT_OF_RESOURCES]
                  /\ lastop' = [lastop EXCEPT ![t] = "attach"]
                  /\ UNCHANGED trdr
             ELSE /\ trdr' = [trdr EXCEPT ![t] = r]
                  /\ UNCHANGED <<tret, lastop>>
          /\ UNCHANGED registered
  /\ UNCHANGED <<xHist, monVars, listener, trig, hasData, queue, nchunks, shm_mutex,
                 lVars, rhc, treq, ttmp, indestroy, invoked, wkHist, nAttachOK,
                 nDetach, illDetach, everEnabled, rpHist>>

\* line 81: the value ++ stores
Incremented(n) == n + 1

\* line 81: ++monitor->m_number_of_attached_readers, the read
attach_reader_read(t) ==
  /\ tpc[t] = "at_read"
  /\ ttmp' = [ttmp EXCEPT ![t] = m_number_of_attached_readers]
  /\ tpc' = [tpc EXCEPT ![t] = "at_write"]
  /\ UNCHANGED <<xHist, monVars, ioxVars, lVars, rhc, treq, trdr, tret, indestroy,
                 nops, invoked, wkHist, opHist, rpHist>>

\* lines 81-83: ++monitor->m_number_of_attached_readers, the write;
\* return DDS_RETCODE_OK
attach_reader_write(t) ==
  /\ tpc[t] = "at_write"
  /\ m_number_of_attached_readers' = Incremented(ttmp[t])
  /\ ttmp' = [ttmp EXCEPT ![t] = 0]
  /\ trdr' = [trdr EXCEPT ![t] = NoReader]
  /\ nAttachOK' = nAttachOK + 1
  /\ Return(t, "attach", DDS_RETCODE_OK)
  /\ UNCHANGED <<xHist, m_state, m_lock, call, arg, ioxVars, lVars, rhc, treq,
                 indestroy, nops, invoked, wkHist, snapA, rep, nAttachCalls,
                 nDetach, illDetach, everEnabled, rpHist>>

\* ------------------------------------------------ shm_monitor_detach_reader
\* line 87: iox_listener_detach_subscriber_event.  The event is removed and its
\* pending notification with it; a callback already running is left to finish.
detach_reader_unregister(t, r) ==
  /\ BeginOp(t, "detach", NoSnap)
  /\ registered' = registered \ {r}
  /\ hasData' = hasData \ {r}
  /\ illDetach' = (illDetach \/ r \notin registered)
  /\ trdr' = [trdr EXCEPT ![t] = r]
  /\ tpc' = [tpc EXCEPT ![t] = "dt_read"]
  /\ UNCHANGED <<xHist, monVars, listener, trig, queue, nchunks, shm_mutex, lVars,
                 rhc, treq, tret, ttmp, indestroy, invoked, wkHist, lastop,
                 nAttachCalls, nAttachOK, nDetach, everEnabled, rpHist>>

\* Mutant of line 88: the decrement is missing.
Decremented_forgotten(n) == n

\* line 88: the value -- stores
Decremented(n) == n - 1

\* line 88: --monitor->m_number_of_attached_readers, the read
detach_reader_read(t) ==
  /\ tpc[t] = "dt_read"
  /\ ttmp' = [ttmp EXCEPT ![t] = m_number_of_attached_readers]
  /\ tpc' = [tpc EXCEPT ![t] = "dt_write"]
  /\ UNCHANGED <<xHist, monVars, ioxVars, lVars, rhc, treq, trdr, tret, indestroy,
                 nops, invoked, wkHist, opHist, rpHist>>

\* lines 88-89: --monitor->m_number_of_attached_readers, the write;
\* return DDS_RETCODE_OK
detach_reader_write(t) ==
  /\ tpc[t] = "dt_write"
  /\ m_number_of_attached_readers' = Decremented(ttmp[t])
  /\ ttmp' = [ttmp EXCEPT ![t] = 0]
  /\ trdr' = [trdr EXCEPT ![t] = NoReader]
  /\ nDetach' = nDetach + 1
  /\ Return(t, "detach", DDS_RETCODE_OK)
  /\ UNCHANGED <<xHist, m_state, m_lock, call, arg, ioxVars, lVars, rhc, treq,
                 indestroy, nops, invoked, wkHist, snapA, rep, nAttachCalls,
                 nAttachOK, illDetach, everEnabled, rpHist>>


\* ------------------------------------------------------------ chunk source
\* The transport publishes a chunk of kind k to reader r's subscriber: it is
\* queued, and the HAS_DATA event is notified when the subscriber is attached.
ChunkArrives(r, k) ==
  /\ nchunks < MaxChunks
  /\ nchunks' = nchunks + 1
  /\ queue' = [queue EXCEPT ![r] = Append(@, <<nchunks + 1, k>>)]
  /\ hasData' = IF r \in registered THEN hasData \cup {r} ELSE hasData
  /\ rpArrived' = [l \in LThreads |-> rpArrived[l] \/ lrd[l] = r]
  /\ UNCHANGED <<xHist, monVars, listener, trig, registered, shm_mutex, lVars, rhc,
                 tVars, invoked, wkHist, opHist, rpK, rpTaken, rpStored, made>>

\* ---------------------------------------------------------- event listener
\* The listener thread wakes on the wakeup trigger's notification, resets it
\* and calls shm_wakeup_trigger_callback.
listener_wake_trigger(l) ==
  /\ lpc[l] = "wait"
  /\ listener = "active"
  /\ trig
  /\ trig' = FALSE
  /\ lpc' = [lpc EXCEPT ![l] = "wk_state"]
  /\ lcause' = [lcause EXCEPT ![l] = trigBy]
  /\ trigBy' = {}
  /\ lww' = IF lww.st = "both" THEN lww ELSE NoLww
  /\ UNCHANGED <<relHist, rpDisabled, serialDestroy, monVars, listener, registered, hasData, queue, nchunks,
                 shm_mutex, lrd, lcall, chunk, d, tk, awake, rhc, tVars,
                 invoked, pendingClean, clean, dropped, invAtDrop,
                 opHist, rpHist, ncalls>>

\* The listener thread wakes on reader r's HAS_DATA notification, resets it and
\* calls shm_subscriber_callback; one source never has two callbacks running.
listener_wake_subscriber(l, r) ==
  /\ lpc[l] = "wait"
  /\ listener = "active"
  /\ r \in hasData
  /\ \A o \in LThreads : lrd[o] # r
  /\ hasData' = hasData \ {r}
  /\ lpc' = [lpc EXCEPT ![l] = "sub_state"]
  /\ lrd' = [lrd EXCEPT ![l] = r]
  /\ rpK' = [rpK EXCEPT ![l] = Len(queue[r])]
  /\ UNCHANGED <<xHist, monVars, listener, trig, registered, queue, nchunks,
                 shm_mutex, lcall, chunk, d, tk, awake, rhc, tVars, invoked,
                 wkHist, opHist, rpTaken, rpStored, rpArrived, made>>

\* ---------------------------------------------- shm_wakeup_trigger_callback
\* line 148, first operand: storage->monitor->m_state == SHM_MONITOR_RUNNING
wakeup_callback_state(l) ==
  /\ lpc[l] = "wk_state"
  /\ IF m_state = SHM_MONITOR_RUNNING
     THEN /\ lpc' = [lpc EXCEPT ![l] = "wk_call"]
          /\ UNCHANGED <<lcause, dropped, invAtDrop>>
     ELSE /\ lpc' = [lpc EXCEPT ![l] = "wait"]
          /\ dropped' = dropped \cup lcause[l]
          /\ invAtDrop' = [i \in Reqs |->
                             IF i \in lcause[l] THEN invoked[<<i, i>>]
                             ELSE invAtDrop[i]]
          /\ lcause' = [lcause EXCEPT ![l] = {}]
  /\ UNCHANGED <<xHist, monVars, ioxVars, lrd, lcall, chunk, d, tk, awake, rhc, tVars,
                 invoked, trigBy, pendingClean, clean, opHist,
                 rpHist, ncalls>>

\* line 148, second operand: && storage->call
wakeup_callback_call(l) ==
  /\ lpc[l] = "wk_call"
  /\ IF call # NULL
     THEN /\ lpc' = [lpc EXCEPT ![l] = "wk_invoke"]
          /\ lcall' = [lcall EXCEPT ![l] = call]
          /\ UNCHANGED lcause
     ELSE /\ lpc' = [lpc EXCEPT ![l] = "wait"]
          /\ lcause' = [lcause EXCEPT ![l] = {}]
          /\ UNCHANGED lcall
  /\ UNCHANGED <<xHist, monVars, ioxVars, lrd, chunk, d, tk, awake, rhc, tVars,
                 invoked, trigBy, pendingClean, clean, dropped,
                 invAtDrop, opHist, rpHist, ncalls>>

\* line 149: storage->call(storage->arg).  The function called is the one the
\* test of line 148 read or, when the compiler reloads it, the one stored now.
wakeup_callback_invoke(l) ==
  /\ lpc[l] = "wk_invoke"
  /\ \E f \in {lcall[l], call} :
       /\ invoked' = [invoked EXCEPT ![<<f, arg>>] = @ + 1]
       /\ clean' = IF f = arg /\ f \in lcause[l] /\ f \in pendingClean
                   THEN clean \cup {f} ELSE clean
  /\ lpc' = [lpc EXCEPT ![l] = "wait"]
  /\ lcall' = [lcall EXCEPT ![l] = NULL]
  /\ lcause' = [lcause EXCEPT ![l] = {}]
  /\ UNCHANGED <<xHist, monVars, ioxVars, lrd, chunk, d, tk, awake, rhc, tVars,
                 trigBy, pendingClean, dropped, invAtDrop, opHist,
                 rpHist, ncalls>>


\* -------------------------------------------------- shm_subscriber_callback
\* Mutant of line 156: the handler is called whatever the run state.
DispatchRuns_always(st) == TRUE

\* line 156: if (storage->monitor->m_state == SHM_MONITOR_RUNNING)
DispatchRuns(st) == st = SHM_MONITOR_RUNNING

\* lines 156-157 and 94-95: the run state is read once; when RUNNING,
\* receive_data_wakeup_handler is entered (chunk = NULL, thread_state_awake).
subscriber_callback_state(l) ==
  /\ lpc[l] = "sub_state"
  /\ IF DispatchRuns(m_state)
     THEN /\ lpc' = [lpc EXCEPT ![l] = "rp_lock"]
          /\ awake' = [awake EXCEPT ![l] = TRUE]
          /\ UNCHANGED <<lrd, rpK, rpArrived>>
     ELSE /\ lpc' = [lpc EXCEPT ![l] = "wait"]
          /\ lrd' = [lrd EXCEPT ![l] = NoReader]
          /\ rpK' = [rpK EXCEPT ![l] = 0]
          /\ rpArrived' = [rpArrived EXCEPT ![l] = FALSE]
          /\ UNCHANGED awake
  /\ UNCHANGED <<xHist, monVars, ioxVars, lcall, chunk, d, tk, rhc, tVars, invoked,
                 wkHist, opHist, rpTaken, rpStored, made>>

\* ---------------------------------------------- receive_data_wakeup_handler
\* Mutant of line 100: the call of shm_mutex_lock is missing.
MutexLets_nolock(l) == TRUE

\* line 100: shm_mutex_lock() lets thread l on once no thread holds the mutex
MutexLets(l) == shm_mutex = "free"

\* line 100: shm_mutex_lock()
receive_lock(l) ==
  /\ lpc[l] = "rp_lock"
  /\ MutexLets(l)
  /\ shm_mutex' = l
  /\ lpc' = [lpc EXCEPT ![l] = "rp_take"]
  /\ UNCHANGED <<xHist, monVars, listener, trig, registered, hasData, queue, nchunks,
                 lrd, lcall, chunk, d, tk, awake, rhc, tVars, invoked, wkHist,
                 opHist, rpHist>>

\* line 101: take_result = iox_sub_take_chunk(rd->m_iox_sub, &chunk)
receive_take(l) ==
  /\ lpc[l] = "rp_take"
  /\ IF queue[lrd[l]] # <<>>
     THEN /\ chunk' = [chunk EXCEPT ![l] = Head(queue[lrd[l]])]
          /\ queue' = [queue EXCEPT ![lrd[l]] = Tail(@)]
          /\ rpTaken' = [rpTaken EXCEPT ![l] = Append(@, Head(queue[lrd[l]]))]
          /\ lpc' = [lpc EXCEPT ![l] = "rp_unlock_success"]
     ELSE /\ lpc' = [lpc EXCEPT ![l] = "rp_unlock_nochunk"]
          /\ UNCHANGED <<chunk, queue, rpTaken>>
  /\ held' = IF queue[lrd[l]] # <<>>
             THEN [held EXCEPT ![l] = @ \cup {Head(queue[lrd[l]])}]
             ELSE held
  /\ UNCHANGED <<rpDisabled, lww, serialDestroy, rpMade, rpTkGot, rpUnrefD, rpUnrefTk, monVars, listener, trig, registered, hasData, nchunks,
                 shm_mutex, lrd, lcall, d, tk, awake, rhc, tVars, invoked,
                 wkHist, opHist, rpK, rpStored, rpArrived, made>>

\* lines 102-104: shm_mutex_unlock(); leave the loop unless a chunk was taken
receive_unlock(l) ==
  /\ lpc[l] \in {"rp_unlock_success", "rp_unlock_nochunk"}
  /\ shm_mutex' = "free"
  /\ lpc' = [lpc EXCEPT ![l] =
               IF lpc[l] = "rp_unlock_success" THEN "rp_lookup" ELSE "rp_asleep"]
  /\ UNCHANGED <<xHist, monVars, listener, trig, registered, hasData, queue, nchunks,
                 lrd, lcall, chunk, d, tk, awake, rhc, tVars, invoked, wkHist,
                 opHist, rpHist>>

\* Mutants of line 114: `break` instead of `continue`; no `continue` at all.
AfterPwrNull_break == "rp_asleep"

AfterPwrNull_fallthrough == "rp_serdata"

\* line 114: `continue` when the proxy writer is not found
AfterPwrNull == "rp_lock"

\* lines 106-115: pwr = entidx_lookup_proxy_writer_guid(...); if (pwr == NULL)
receive_lookup(l) ==
  /\ lpc[l] = "rp_lookup"
  /\ lpc' = [lpc EXCEPT ![l] =
               IF chunk[l][2] = "nopwr" THEN AfterPwrNull ELSE "rp_serdata"]
  /\ UNCHANGED <<xHist, monVars, ioxVars, lrd, lcall, chunk, d, tk, awake, rhc, tVars,
                 invoked, wkHist, opHist, rpHist>>

\* lines 118-120: d = ddsi_serdata_from_iox(..., chunk); d->timestamp
receive_serdata(l) ==
  /\ lpc[l] = "rp_serdata"
  /\ d' = [d EXCEPT ![l] = chunk[l]]
  /\ made' = made \cup {chunk[l]}
  /\ lpc' = [lpc EXCEPT ![l] = "rp_tk"]
  /\ rpMade' = [rpMade EXCEPT ![l] = Append(@, chunk[l])]
  /\ UNCHANGED <<rpDisabled, lww, serialDestroy, held, rpTkGot, rpUnrefD, rpUnrefTk, monVars, ioxVars, lrd, lcall, chunk, tk, awake, rhc, tVars,
                 invoked, wkHist, opHist, rpK, rpTaken, rpStored, rpArrived>>

\* Mutant of line 127: `break` instead of `goto release`.
AfterTkNull_break == "rp_asleep"

\* Mutant of line 127: the `goto release` is missing.
AfterTkNull_fallthrough == "rp_store"

\* line 127: `goto release` when ddsi_tkmap_lookup_instance_ref fails
AfterTkNull == "rp_release"

\* lines 123-128: tk = ddsi_tkmap_lookup_instance_ref(..., d); if (tk == NULL)
receive_tk(l) ==
  /\ lpc[l] = "rp_tk"
  /\ tk' = [tk EXCEPT ![l] = (d[l][2] # "notk")]
  /\ lpc' = [lpc EXCEPT ![l] =
               IF d[l][2] = "notk" THEN AfterTkNull ELSE "rp_store"]
  /\ rpTkGot' = IF d[l][2] # "notk"
                THEN [rpTkGot EXCEPT ![l] = Append(@, d[l])]
                ELSE rpTkGot
  /\ UNCHANGED <<rpDisabled, lww, serialDestroy, held, rpMade, rpUnrefD, rpUnrefTk, monVars, ioxVars, lrd, lcall, chunk, d, awake, rhc, tVars,
                 invoked, wkHist, opHist, rpHist>>

\* lines 131-134: ddsi_make_writer_info; (void)ddsi_rhc_store(rhc, &wrinfo, d, tk)
receive_store(l) ==
  /\ lpc[l] = "rp_store"
  /\ rhc' = [rhc EXCEPT ![lrd[l]] = Append(@, d[l])]
  /\ rpStored' = [rpStored EXCEPT ![l] = Append(@, d[l])]
  /\ lpc' = [lpc EXCEPT ![l] = "rp_release"]
  /\ UNCHANGED <<xHist, monVars, ioxVars, lrd, lcall, chunk, d, tk, awake, tVars,
                 invoked, wkHist, opHist, rpK, rpTaken, rpArrived, made>>

\* Mutant of line 137: the token is unreferenced without the test.
UnrefsToken_always(t) == TRUE

\* line 137: if (tk)
UnrefsToken(t) == t

\* lines 136-141: release: unref tk when set, unref d; next iteration.  The
\* sample owns the chunk it was made from (line 118), so the pipeline's hold
\* on the chunk ends where it drops its reference to the sample.
receive_release(l) ==
  /\ lpc[l] = "rp_release"
  /\ tk' = [tk EXCEPT ![l] = FALSE]
  /\ d' = [d EXCEPT ![l] = NoChunk]
  /\ lpc' = [lpc EXCEPT ![l] = "rp_lock"]
  /\ rpUnrefTk' = IF UnrefsToken(tk[l])
                  THEN [rpUnrefTk EXCEPT ![l] = Append(@, d[l])]
                  ELSE rpUnrefTk
  /\ rpUnrefD' = IF d[l] # NoChunk
                 THEN [rpUnrefD EXCEPT ![l] = Append(@, d[l])]
                 ELSE rpUnrefD
  /\ held' = [held EXCEPT ![l] = @ \ {d[l]}]
  /\ UNCHANGED <<rpDisabled, lww, serialDestroy, rpMade, rpTkGot, monVars, ioxVars, lrd, lcall, chunk, awake, rhc, tVars,
                 invoked, wkHist, opHist, rpHist>>

\* lines 142-143 and 158-159: thread_state_asleep; the handler and the
\* callback return to the listener
receive_asleep(l) ==
  /\ lpc[l] = "rp_asleep"
  /\ awake' = [awake EXCEPT ![l] = FALSE]
  /\ chunk' = [chunk EXCEPT ![l] = NoChunk]
  /\ lrd' = [lrd EXCEPT ![l] = NoReader]
  /\ lpc' = [lpc EXCEPT ![l] = "wait"]
  /\ rpK' = [rpK EXCEPT ![l] = 0]
  /\ rpTaken' = [rpTaken EXCEPT ![l] = <<>>]
  /\ rpStored' = [rpStored EXCEPT ![l] = <<>>]
  /\ rpArrived' = [rpArrived EXCEPT ![l] = FALSE]
  /\ held' = [held EXCEPT ![l] = {}]
  /\ made' = made \ {rpMade[l][j] : j \in 1..Len(rpMade[l])}
  /\ rpMade' = [rpMade EXCEPT ![l] = <<>>]
  /\ rpTkGot' = [rpTkGot EXCEPT ![l] = <<>>]
  /\ rpUnrefD' = [rpUnrefD EXCEPT ![l] = <<>>]
  /\ rpUnrefTk' = [rpUnrefTk EXCEPT ![l] = <<>>]
  /\ rpDisabled' = [rpDisabled EXCEPT ![l] = FALSE]
  /\ UNCHANGED <<lww, serialDestroy, monVars, ioxVars, lcall, d, tk, rhc,
                 tVars, invoked, wkHist, opHist>>

\* ---------------------------------------------------------- specifications
InvokeOps(t, Q) ==
  \/ \E i \in Q : wake_and_invoke_call(t, i)
  \/ wake_and_invoke_arg(t)
  \/ wake_and_invoke_trigger(t)

RunStateOps(t) ==
  \/ wake_and_disable_state(t)
  \/ wake_and_disable_trigger(t)
  \/ wake_and_enable_state(t)
  \/ wake_and_enable_trigger(t)

DestroyOps(t) ==
  \/ destroy_disable(t)
  \/ wake_and_disable_trigger(t)
  \/ destroy_spin(t)
  \/ destroy_deinit(t)
  \/ destroy_lock(t)

AttachOps(t, RS) ==
  \/ \E r \in RS : attach_reader_register(t, r)
  \/ attach_reader_read(t)
  \/ attach_reader_write(t)

DetachOps(t, RS) ==
  \/ \E r \in RS : detach_reader_unregister(t, r)
  \/ detach_reader_read(t)
  \/ detach_reader_write(t)

WakeupCallback(l) ==
  \/ listener_wake_trigger(l)
  \/ wakeup_callback_state(l)
  \/ wakeup_callback_call(l)
  \/ wakeup_callback_invoke(l)

SubscriberCallback(l) ==
  \/ \E r \in Readers : listener_wake_subscriber(l, r)
  \/ subscriber_callback_state(l)
  \/ receive_lock(l)
  \/ receive_take(l)
  \/ receive_unlock(l)
  \/ receive_lookup(l)
  \/ receive_serdata(l)
  \/ receive_tk(l)
  \/ receive_store(l)
  \/ receive_release(l)
  \/ receive_asleep(l)

Transport(RS) == \E r \in RS, k \in Kinds : ChunkArrives(r, k)

\* The transport publishes chunks of the kinds KS only.
TransportOf(RS, KS) == \E r \in RS, k \in KS : ChunkArrives(r, k)

\* The wakeup mechanism: one application thread issues wake_and_invoke,
\* wake_and_disable, wake_and_enable and destroy; the listener thread runs the
\* wakeup callback.
Next ==
  \/ InvokeOps("T1", Reqs)
  \/ RunStateOps("T1")
  \/ DestroyOps("T1")
  \/ WakeupCallback("L1")

Spec == Init /\ [][Next]_vars

\* Shutdown: one application thread attaches readers, requests invocations,
\* switches the run state and destroys the monitor while the transport delivers chunks and the
\* listener thread runs both callbacks.
NextShutdown ==
  \/ AttachOps("T1", {"r1"})
  \/ InvokeOps("T1", {1})
  \/ RunStateOps("T1")
  \/ DestroyOps("T1")
  \/ WakeupCallback("L1")
  \/ SubscriberCallback("L1")
  \/ Transport({"r1"})

SpecShutdown == Init /\ [][NextShutdown]_vars

\* Attach/detach bookkeeping: one application thread, no callback activity.
NextAttach ==
  \/ AttachOps("T1", Readers)
  \/ DetachOps("T1", Readers)

SpecAttach == Init /\ [][NextAttach]_vars

\* Reception: the reader is attached (once), the transport delivers chunks,
\* the run state is switched, and the listener thread runs the subscriber
\* callback.
NextReceive ==
  \/ AttachOps("T1", {"r1"} \ registered)
  \/ RunStateOps("T1")
  \/ SubscriberCallback("L1")
  \/ Transport({"r1"})

SpecReceive == Init /\ [][NextReceive]_vars

\* Attach/detach bookkeeping with two application threads calling
\* attach_reader and detach_reader at the same time.
NextAttachConcurrent ==
  \/ AttachOps("T1", Readers)
  \/ DetachOps("T1", Readers)
  \/ AttachOps("T2", Readers)
  \/ DetachOps("T2", Readers)

SpecAttachConcurrent == Init /\ [][NextAttachConcurrent]_vars

\* Reception for two readers, each attached once: the listener runs the
\* callbacks of different readers on two threads at the same time.
NextReceiveConcurrent ==
  \/ AttachOps("T1", {"r1", "r2"} \ registered)
  \/ SubscriberCallback("L1")
  \/ SubscriberCallback("L2")
  \/ TransportOf({"r1", "r2"}, {"ok"})

SpecReceiveConcurrent == Init /\ [][NextReceiveConcurrent]_vars

\* The steps of thread t that carry on a control operation it has entered.
CallSteps(t) ==
  \/ wake_and_invoke_arg(t)
  \/ wake_and_invoke_trigger(t)
  \/ wake_and_disable_trigger(t)
  \/ wake_and_enable_trigger(t)

\* The steps of thread t that carry on a destroy it has entered.
DestroySteps(t) ==
  \/ wake_and_disable_trigger(t)
  \/ destroy_spin(t)
  \/ destroy_deinit(t)
  \/ destroy_lock(t)

\* Teardown under load: one thread runs destroy while another calls
\* wake_and_invoke, wake_and_disable and wake_and_enable and the listener
\* thread runs the wakeup callback.  A thread inside an operation or a
\* callback eventually takes its next step, and a pending notification is
\* eventually dispatched; no thread is obliged to make a further call.
NextDestroyConcurrent ==
  \/ DestroyOps("T1")
  \/ InvokeOps("T2", {1})
  \/ RunStateOps("T2")
  \/ WakeupCallback("L1")

SpecDestroyConcurrent ==
  /\ InitConcurrentDestroy
  /\ [][NextDestroyConcurrent]_vars
  /\ WF_vars(DestroySteps("T1"))
  /\ WF_vars(CallSteps("T2"))
  /\ WF_vars(WakeupCallback("L1"))

\* ------------------------------------------------------------------ claims
AllIdle == \A t \in Threads : tpc[t] = "idle"

\* C1: a wake_and_invoke(f, a) called while RUNNING, the monitor staying
\* RUNNING until the listener thread handles its trigger firing, gets f(a)
\* invoked exactly once from the call on: not zero times, and not again at a
\* later firing of the wakeup trigger.
C1_InvokedExactlyOnce ==
  \A i \in Reqs :
    /\ (i \in clean /\ ncalls[i] = 1) => invoked[<<i, i>>] = 1
    /\ (AllIdle /\ Quiescent /\ i \in pendingClean /\ call = i /\ arg = i)
         => i \in clean

\* The `not zero times' half of C1 alone.
C1_InvokedAtLeastOnce ==
  \A i \in Reqs :
    /\ (i \in clean /\ ncalls[i] = 1) => invoked[<<i, i>>] >= 1
    /\ (AllIdle /\ Quiescent /\ i \in pendingClean /\ call = i /\ arg = i)
         => i \in clean

\* C2: when the wakeup callback observes the firing of wake_and_invoke(f, a)
\* with the monitor NOT_RUNNING, f(a) is not invoked then nor at any later
\* firing, until wake_and_invoke(f, a) is called again.
C2_DroppedNeverInvoked ==
  \A i \in dropped : invoked[<<i, i>>] = invAtDrop[i]

\* C10: a wake_and_disable or wake_and_enable that directly follows the same
\* call (the first one handled, the listener idle) changes nothing observable:
\* run state, stored payload and the calls made on the listener thread stay as
\* the first call left them.
C10_RepeatedCallChangesNothing ==
  \A t \in Threads :
    rep[t].active =>
      /\ m_state = rep[t].st
      /\ call = rep[t].call
      /\ arg = rep[t].arg
      /\ TotalInvoked = rep[t].inv

\* The wake_and_disable half of C10 alone.
C10_RepeatedDisableChangesNothing ==
  \A t \in Threads :
    (rep[t].active /\ rep[t].op = "disable") =>
      /\ m_state = rep[t].st
      /\ call = rep[t].call
      /\ arg = rep[t].arg
      /\ TotalInvoked = rep[t].inv


\* shm_monitor_destroy has left its wait loop of line 47.
PastDestroyWait ==
  \E t \in Threads : tpc[t] \in {"ds_deinit", "ds_lock", "done"}

\* C3: once destroy has disabled the monitor and left its wait loop (no
\* wake_and_enable after it, the run state still NOT_RUNNING), no Reception
\* Pipeline invocation is running or starts for any reader.
C3_NoPipelineAfterShutdown ==
  (PastDestroyWait /\ m_state = SHM_MONITOR_NOT_RUNNING)
    => \A l \in LThreads : ~InPipeline(l)

\* C4: destroy is at listener deinit (line 51) or lock destruction (line 52)
\* only while the listener thread runs no callback.
C4_TeardownAfterCallbacks ==
  (\E t \in Threads : tpc[t] \in {"ds_deinit", "ds_lock"})
    => \A l \in LThreads : lpc[l] = "wait"

\* C5 as stated: between calls the count is the number of attach calls minus
\* the number of detach calls, and is never negative.
C5_CountIsAttachMinusDetach ==
  AllIdle =>
    /\ m_number_of_attached_readers = nAttachCalls - nDetach
    /\ m_number_of_attached_readers >= 0

\* C5 amended: as long as every detach was of a reader attached at that time,
\* the count between calls is the number of successful attach calls minus the
\* number of detach calls, and is never negative.
C5_CountIsAttachedMinusDetached ==
  (AllIdle /\ ~illDetach) =>
    /\ m_number_of_attached_readers = nAttachOK - nDetach
    /\ m_number_of_attached_readers >= 0

C5_Witness ==
  /\ AllIdle
  /\ ~illDetach
  /\ nAttachOK = 2
  /\ nDetach = 1
  /\ m_number_of_attached_readers = 1

\* C6: an attach_reader the listener refuses returns
\* DDS_RETCODE_OUT_OF_RESOURCES and leaves count, registered sources and run
\* state as they were at the call; one it accepts returns DDS_RETCODE_OK with
\* the count one higher.
C6_AttachAllOrNothing ==
  \A t \in Threads :
    (tpc[t] = "idle" /\ lastop[t] = "attach") =>
      IF snapA[t][4]
      THEN /\ tret[t] = DDS_RETCODE_OK
           /\ m_number_of_attached_readers = snapA[t][1] + 1
      ELSE /\ tret[t] = DDS_RETCODE_OUT_OF_RESOURCES
           /\ m_number_of_attached_readers = snapA[t][1]
           /\ registered = snapA[t][2]
           /\ m_state = snapA[t][3]

C6_Witness ==
  \E t \in Threads :
    /\ tpc[t] = "idle"
    /\ lastop[t] = "attach"
    /\ tret[t] = DDS_RETCODE_OUT_OF_RESOURCES
    /\ Cardinality(registered) = ListenerCapacity
    /\ m_number_of_attached_readers = ListenerCapacity

\* The handler has left its loop (line 142) and no chunk arrived for its
\* reader since the listener dispatched the event.
DrainDone(l) == lpc[l] = "rp_asleep" /\ ~rpArrived[l]

\* C7: with K chunks queued when the has-data event is dispatched and none
\* arriving during the drain, the invocation has taken all K chunks, whatever
\* their kinds, and the queue is empty when it leaves the loop.
C7_DrainsAllChunks ==
  \A l \in LThreads :
    DrainDone(l) =>
      /\ Len(rpTaken[l]) = rpK[l]
      /\ queue[lrd[l]] = <<>>

C7_Witness ==
  \E l \in LThreads :
    /\ DrainDone(l)
    /\ rpK[l] = 3
    /\ {rpTaken[l][j][2] : j \in 1..Len(rpTaken[l])} = Kinds

\* C8: a chunk whose writer is not found is never stored in a history cache
\* and no sample is made from it, and the chunks queued behind it are still
\* taken in the same invocation.
C8_UnresolvedDroppedDrainGoesOn ==
  /\ \A r \in Readers : \A j \in 1..Len(rhc[r]) : rhc[r][j][2] # "nopwr"
  /\ \A c \in made : c[2] # "nopwr"
  /\ \A l \in LThreads :
       (DrainDone(l) /\ \E j \in 1..Len(rpTaken[l]) : rpTaken[l][j][2] = "nopwr")
         => (Len(rpTaken[l]) = rpK[l] /\ queue[lrd[l]] = <<>>)

C8_Witness ==
  \E l \in LThreads :
    /\ DrainDone(l)
    /\ Len(rpTaken[l]) >= 2
    /\ rpTaken[l][1][2] = "nopwr"
    /\ rpTaken[l][2][2] = "ok"
    /\ rpStored[l] = <<rpTaken[l][2]>>

IsStorable(c) == c[2] = "ok"

\* C9: at every loop top and at the loop's exit the history cache of the
\* reader has received, in this invocation, exactly the taken chunks whose
\* writer resolved and whose token lookup succeeded, once each, in the order
\* taken.
C9_StoresExactlyResolvable ==
  \A l \in LThreads :
    lpc[l] \in {"rp_lock", "rp_asleep"} =>
      /\ rpStored[l] = SelectSeq(rpTaken[l], IsStorable)
      /\ Len(rhc[lrd[l]]) >= Len(rpStored[l])
      /\ SubSeq(rhc[lrd[l]], Len(rhc[lrd[l]]) - Len(rpStored[l]) + 1,
                Len(rhc[lrd[l]])) = rpStored[l]

C9_Witness ==
  \E l \in LThreads :
    /\ lpc[l] = "rp_asleep"
    /\ Len(rpTaken[l]) = 3
    /\ Len(rpStored[l]) = 3


\* Thread t is between the registration change and the end of the
\* read-modify-write of the count (lines 77-81 and 87-88).
InCountUpdate(t) == tpc[t] \in {"at_read", "at_write", "dt_read", "dt_write"}

\* C11: with two threads running attach_reader / detach_reader at the same
\* time (every detach of a reader registered at that time), no increment or
\* decrement is lost: once both are back, the count is the number of
\* successful attaches minus the number of detaches.
C11_NoUpdateLost ==
  (AllIdle /\ ~illDetach) =>
    m_number_of_attached_readers = nAttachOK - nDetach

\* The locking half of C11: the registration change and the update of the
\* count are made by the holder of the monitor's lock.
C11_CountUpdatedUnderLock ==
  \A t \in Threads : InCountUpdate(t) => m_lock = t

\* C12: every chunk the pipeline took is released before the loop takes the
\* next chunk (line 100) and before the handler returns (line 142), on every
\* path, the one of the unresolved writer included.
C12_NoChunkHeldAtLoopTop ==
  \A l \in LThreads :
    lpc[l] \in {"rp_lock", "rp_asleep"} => held[l] = {}

\* C12 on the paths that make a sample (writer resolved): there the chunk
\* goes with the sample and is let go at line 140.
C12_ResolvedChunksReleased ==
  \A l \in LThreads :
    lpc[l] \in {"rp_lock", "rp_asleep"} =>
      \A c \in held[l] : c[2] = "nopwr"

\* Every sample and every instance token of the invocation so far has been
\* unreferenced once, in the order made.
AllUnreferenced(l) ==
  /\ rpUnrefD[l] = rpMade[l]
  /\ rpUnrefTk[l] = rpTkGot[l]

HasToken(c) == c[2] # "notk"

\* C13: at every loop top and at the loop's exit, every sample made in the
\* invocation has been unreferenced exactly once and every token obtained
\* exactly once; a sample whose token lookup failed has been unreferenced
\* alone, no token with it.
C13_SampleAndTokenUnrefOnce ==
  \A l \in LThreads :
    lpc[l] \in {"rp_lock", "rp_asleep"} =>
      /\ AllUnreferenced(l)
      /\ rpUnrefTk[l] = SelectSeq(rpUnrefD[l], HasToken)
      /\ \A j, k \in 1..Len(rpUnrefD[l]) :
           rpUnrefD[l][j] = rpUnrefD[l][k] => j = k

C13_Witness ==
  \E l \in LThreads :
    /\ lpc[l] = "rp_asleep"
    /\ Len(rpUnrefD[l]) = 2
    /\ Len(rpUnrefTk[l]) = 1
    /\ rpUnrefD[l][1][2] = "notk"
    /\ rpStored[l] = <<rpUnrefD[l][2]>>

IsTokenless(c) == c[2] = "notk"

\* C14: a chunk whose token lookup fails is never stored in a history cache,
\* its sample is unreferenced (once, without a token) before the next
\* iteration, the chunks queued behind it are still taken and the storable
\* ones stored, and what attach_reader returned to its caller stays what the
\* registration alone decided.
C14_TokenFailureDropsOneChunk ==
  /\ \A r \in Readers : \A j \in 1..Len(rhc[r]) : ~IsTokenless(rhc[r][j])
  /\ \A l \in LThreads :
       lpc[l] \in {"rp_lock", "rp_asleep"} =>
         /\ SelectSeq(rpUnrefD[l], IsTokenless)
              = SelectSeq(rpTaken[l], IsTokenless)
         /\ SelectSeq(rpUnrefTk[l], IsTokenless) = <<>>
  /\ \A l \in LThreads :
       (DrainDone(l) /\ SelectSeq(rpTaken[l], IsTokenless) # <<>>) =>
         /\ Len(rpTaken[l]) = rpK[l]
         /\ queue[lrd[l]] = <<>>
         /\ rpStored[l] = SelectSeq(rpTaken[l], IsStorable)
  /\ \A t \in Threads :
       (tpc[t] = "idle" /\ lastop[t] = "attach") =>
         tret[t] = IF snapA[t][4] THEN DDS_RETCODE_OK
                   ELSE DDS_RETCODE_OUT_OF_RESOURCES

C14_Witness ==
  \E l \in LThreads :
    /\ DrainDone(l)
    /\ Len(rpTaken[l]) = 3
    /\ IsTokenless(rpTaken[l][1])
    /\ rpStored[l] = <<rpTaken[l][2], rpTaken[l][3]>>
    /\ rpUnrefD[l] = rpTaken[l]
    /\ lastop["T1"] = "attach"
    /\ tret["T1"] = DDS_RETCODE_OK

\* Thread l is between shm_mutex_lock (line 100) and shm_mutex_unlock (line
\* 102): inside iox_sub_take_chunk or about to unlock.
InTake(l) == lpc[l] \in {"rp_take", "rp_unlock_success", "rp_unlock_nochunk"}

\* C15: at most one listener thread, over all readers, is inside the take of
\* line 101 at any time; the transport-wide mutex is held by a thread exactly
\* while it is between lines 100 and 102, so not during writer lookup, sample
\* construction, store and release, nor when the handler returns.
C15_TakeSerialized ==
  /\ \A l1, l2 \in LThreads : (InTake(l1) /\ InTake(l2)) => l1 = l2
  /\ \A l \in LThreads : InTake(l) <=> shm_mutex = l
  /\ (\A l \in LThreads : ~InTake(l)) => shm_mutex = "free"

\* Two invocations run at the same time, one inside the take, the other past
\* its own take and about to store its sample.
C15_Witness ==
  \E l1, l2 \in LThreads :
    /\ lpc[l1] = "rp_take"
    /\ lpc[l2] = "rp_store"
    /\ lrd[l1] # lrd[l2]
    /\ queue[lrd[l1]] # <<>>

\* C16: the run state is tested once, at line 156.  An invocation that
\* passed the test goes on to the end of its drain when wake_and_disable (or
\* destroy) sets NOT_RUNNING in the middle of it: it takes every queued chunk
\* and stores the storable ones.  Only invocations that read RUNNING are ever
\* in the handler, so one that read NOT_RUNNING takes no chunk.
C16_DisableDoesNotCancelDrain ==
  \A l \in LThreads :
    /\ (DrainDone(l) /\ rpDisabled[l]) =>
         /\ Len(rpTaken[l]) = rpK[l]
         /\ queue[lrd[l]] = <<>>
         /\ rpStored[l] = SelectSeq(rpTaken[l], IsStorable)
    /\ (InPipeline(l) /\ ~rpDisabled[l]) => m_state = SHM_MONITOR_RUNNING
    /\ ~InPipeline(l) => (rpTaken[l] = <<>> /\ held[l] = {})

C16_Witness ==
  \E l \in LThreads :
    /\ DrainDone(l)
    /\ rpDisabled[l]
    /\ m_state = SHM_MONITOR_NOT_RUNNING
    /\ rpK[l] = 3
    /\ Len(rpStored[l]) = 3

\* C17: wake_and_invoke(f1, a1) and then wake_and_invoke(f2, a2) have both
\* returned with the listener thread waiting all the while.  Until the next
\* wake_and_invoke every invocation the wakeup callback makes is f2(a2);
\* f1(a1) is not invoked.
C17_LastWriteWins ==
  lww.st = "both" =>
    /\ TotalInvoked - invoked[<<lww.f, lww.f>>] = lww.base
    /\ call = lww.f
    /\ arg = lww.f

C17_Witness ==
  /\ lww.st = "both"
  /\ lww.f = 2
  /\ ncalls = [i \in Reqs |-> 1]
  /\ invoked[<<2, 2>>] = 2
  /\ TotalInvoked = 2

\* C18: every call the wakeup callback makes is f(a) with f and a passed
\* together in one wake_and_invoke by the one serialized caller: no function
\* is called with the argument of another request (no f2(a1), no f1(a2)).
C18_InvokesPassedPairsOnly ==
  \A f, a \in Reqs : invoked[<<f, a>>] > 0 => f = a

\* The null-function half of C18: line 149 is reached only with a function
\* stored, and no operation stores NULL.
C18_NeverInvokesNull ==
  /\ \A l \in LThreads : lpc[l] = "wk_invoke" => (lcall[l] # NULL /\ call # NULL)
  /\ \A p \in DOMAIN invoked : p[1] # NULL

\* C19: under fair scheduling a destroy that was entered leaves its wait loop
\* (line 47), deinitialises the listener and destroys the lock, whatever the
\* other thread's wake_and_invoke / wake_and_enable / wake_and_disable calls
\* and the listener thread's callbacks do meanwhile.
C19_DestroyTerminates ==
  \A t \in Threads : indestroy[t] ~> (tpc[t] = "done")

\* Without a wake_and_enable after the wake_and_disable of line 46 the wait
\* loop is left: destroy is in the loop only with the other thread's
\* wake_and_enable having set RUNNING again.
C19_SpinsOnlyAfterEnable ==
  \A t \in Threads :
    (tpc[t] = "ds_spin" /\ m_state = SHM_MONITOR_RUNNING) => everEnabled

\* C20: between calls, after any sequence of attach_reader and detach_reader
\* calls (detach of a reader that is not attached included), the count is the
\* number of reader event sources registered on the listener.
C20_CountIsRegistered ==
  AllIdle => m_number_of_attached_readers = Cardinality(registered)

\* C20 for the sequences in which every detach is of a reader registered at
\* that time.
C20_CountIsRegisteredWhenDetachesMatch ==
  (AllIdle /\ ~illDetach) =>
    m_number_of_attached_readers = Cardinality(registered)

====
